---- MODULE Spec2Model ----
(***************************************************************************)
(* Conversation orchestration of repl-talk: the per-session AI client      *)
(* (createAIClient: conversationHistory, error-recovery state,             *)
(* processAIResponse, continueConversation, sendMessage) and the           *)
(* application's approval gate (pendingCodeExecutions, handleCodeApproval, *)
(* handleCodeRejection, handleUserMessage, the WebSocket close handler).   *)
(*                                                                         *)
(* Node.js runs every handler to completion, so each handler (with all the *)
(* callbacks it invokes synchronously) is one action.  The asynchronous    *)
(* waits are state: chat-completion requests in flight (inflight),         *)
(* executions awaiting approval (pendingCodeExecutions) and evalClojure    *)
(* invocations in flight (evals).                                          *)
(***************************************************************************)
EXTENDS Integers, Sequences, FiniteSets, Bags, TLC

VARIABLES
    conn,                   \* connection -> "none" | "open" | "closed"
    aiClients,              \* appState.aiClients: connections whose session has a client in the map
    conversationHistory,    \* connection -> client.conversationHistory
    inErrorRecovery,        \* connection -> client.inErrorRecovery
    iterationCount,         \* connection -> client.iterationCount
    turns,                  \* one record per sendMessage call: its connection, what its callback received, requests issued
    rounds,                 \* one record per processAIResponse with tool calls: the closure's completed / hasError
    inflight,               \* chat-completion requests awaiting their response
    pendingCodeExecutions,  \* appState.pendingCodeExecutions: messageId -> {code, callback, ws}
    evals,                  \* bag of evalClojure invocations in flight
    saved,                  \* connection -> the session's rows in the messages table, written by saveCallback
    statusSent,             \* the status notifications the last handler gave to statusCallback
    audit,                  \* history variable: what happened to each pending execution
    serverState,            \* nrepl-server: the serverState of one start() call
    sentinel,               \* nrepl-server: startSentinel's closure (thenDoCalled, timers, listeners) and thenDo's invocations
    namespaceCache,         \* ns-discovery: namespaceCache.allNamespaces
    discoverCalls,          \* ns-discovery: one record per discoverNamespaces call
    discoveryAudit,         \* history variable: the last successful list and whether clearCache came last
    htmlInput,              \* extractHTML: the argument (content)
    extracted               \* extractHTML: what the call produced

chatVars == <<conn, aiClients, conversationHistory, inErrorRecovery, iterationCount,
              turns, rounds, inflight, pendingCodeExecutions, evals, saved, statusSent, audit>>

serverVars == <<serverState, sentinel>>

discoveryVars == <<namespaceCache, discoverCalls, discoveryAudit>>

extractVars == <<htmlInput, extracted>>

vars == <<chatVars, serverVars, discoveryVars, extractVars>>

(***************************************************************************)
(* Bounds of the model and program constants.                              *)
(***************************************************************************)
NoServer == [proc |-> "none"]

NoSentinel == [thenDo |-> <<>>]

NoCache == [cached |-> FALSE]

NoContent == [kind |-> "none"]

Conns == {"ws1", "ws2"}

MaxTurns == 2
MaxRounds == 1
MaxToolCalls == 1
MaxEvals == 2
FanOutCalls == 2
FanOutEvals == 2
RecoverySlack == 2
MaxStored == 4
ToolRounds == 1
ToolCalls == 2
ToolEvals == 2
ValidatorRounds == 2
ValidatorEvals == 2
IntegrityRounds == 2
IntegrityCalls == 2
IntegrityEvals == 2

maxIterations == 5

codeValidationEnabled == TRUE

\* The limits of a specification: which connections act and how far they go.
GeneralLimits ==
    [conns |-> Conns, turns |-> MaxTurns, rounds |-> MaxRounds,
     calls |-> MaxToolCalls, evals |-> MaxEvals,
     kinds |-> {"eval"}, findings |-> {"clean", "errors"}]

\* One session, one turn, one round of several tool calls.
FanOutLimits ==
    [conns |-> {"ws1"}, turns |-> 1, rounds |-> 1,
     calls |-> FanOutCalls, evals |-> FanOutEvals,
     kinds |-> {"eval"}, findings |-> {"clean", "errors"}]

\* The error-recovery scenario: one session, one turn, every assistant
\* response carries one tool call and every execution is approved once.
RecoveryLimits ==
    [conns |-> {"ws1"}, turns |-> 1, rounds |-> maxIterations + RecoverySlack,
     calls |-> 1, evals |-> 1,
     kinds |-> {"eval"}, findings |-> {"clean", "errors"}]

\* The tool calls of a response as the LLM may write them: "eval" names the
\* configured tool with JSON arguments and an id, "noid" is the same without
\* an id, "unknown" names another function, "malformed" names the configured
\* tool with arguments that JSON.parse rejects.
ToolCallKinds == {"eval", "noid", "unknown", "malformed"}

\* What clj-kondo does with the code: it cannot be spawned ("unavailable"),
\* its stdout is not JSON ("unparsable"), it prints nothing ("empty"), or it
\* prints findings: none ("clean"), only of level info ("info"), of level
\* warning but not error ("warnings"), or some of level error ("errors").
LintOutcomes ==
    {"unavailable", "unparsable", "empty", "clean", "info", "warnings", "errors"}

\* One session, one turn, responses with calls of every kind.
ToolLimits ==
    [conns |-> {"ws1"}, turns |-> 1, rounds |-> ToolRounds,
     calls |-> ToolCalls, evals |-> ToolEvals,
     kinds |-> ToolCallKinds, findings |-> {"clean", "errors"}]

\* One session, one turn, one call per response, every validator outcome.
ValidatorLimits ==
    [conns |-> {"ws1"}, turns |-> 1, rounds |-> ValidatorRounds,
     calls |-> 1, evals |-> ValidatorEvals,
     kinds |-> {"eval"}, findings |-> LintOutcomes]

\* One session, one turn, calls with and without an id, code that lints clean.
IntegrityLimits ==
    [conns |-> {"ws1"}, turns |-> 1, rounds |-> IntegrityRounds,
     calls |-> IntegrityCalls, evals |-> IntegrityEvals,
     kinds |-> {"eval", "noid"}, findings |-> {"clean"}]

\* A session with a stored conversation: the client is created from the
\* store and the next user message is sent.
LoadLimits ==
    [conns |-> {"ws1"}, turns |-> 1, rounds |-> 0, calls |-> 0, evals |-> 0,
     kinds |-> {}, findings |-> {}]

(***************************************************************************)
(* Messages.  tool_calls is a list of tool-call ids; has_tool_calls is the *)
(* JavaScript truthiness of msg.tool_calls (an empty list is truthy).  A   *)
(* tool-call id is the pair <<round, index>>: the LLM endpoint issues      *)
(* distinct ids.  The content of a tool message is the JSON text built by  *)
(* handleToolCall, kept as the name of its shape.                          *)
(***************************************************************************)
NoId == <<>>

UserMessage(text) ==
    [role |-> "user", content |-> text, has_tool_calls |-> FALSE,
     tool_calls |-> <<>>, tool_call_id |-> NoId]

AssistantMessage(content, has, calls) ==
    [role |-> "assistant", content |-> content, has_tool_calls |-> has,
     tool_calls |-> calls, tool_call_id |-> NoId]

ToolMessage(id, content) ==
    [role |-> "tool", content |-> content, has_tool_calls |-> FALSE,
     tool_calls |-> <<>>, tool_call_id |-> id]

SystemMessage ==
    [role |-> "system", content |-> "systemPrompt", has_tool_calls |-> FALSE,
     tool_calls |-> <<>>, tool_call_id |-> NoId]

\* JSON.parse(result.content).status
StatusOf(content) ==
    CASE content = "success" -> "success"
      [] content = "error" -> "error"
      [] content = "error_validation" -> "error"
      [] content = "execution_failed" -> "execution_failed"
      [] OTHER -> "none"

Range(s) == {s[i] : i \in DOMAIN s}

ToolCallIds(r, n) == [k \in 1..n |-> <<r, k>>]

(***************************************************************************)
(* sanitizeHistory                                                         *)
(***************************************************************************)
\* Mutant: the run keeps every following tool message.
RECURSIVE SanitizeToolRunKeepsAll(_, _, _, _, _)
SanitizeToolRunKeepsAll(history, i, toolCallIds, includedToolCallIds, sanitized) ==
    IF i <= Len(history) /\ history[i].role = "tool"
    THEN SanitizeToolRunKeepsAll(history, i + 1, toolCallIds, includedToolCallIds,
                                 Append(sanitized, history[i]))
    ELSE [i |-> i, sanitized |-> sanitized]

RECURSIVE SanitizeToolRun(_, _, _, _, _)
SanitizeToolRun(history, i, toolCallIds, includedToolCallIds, sanitized) ==
    IF i <= Len(history) /\ history[i].role = "tool"
    THEN LET toolMsg == history[i] IN
         IF toolMsg.tool_call_id # NoId /\ toolMsg.tool_call_id \in toolCallIds
         THEN IF toolMsg.tool_call_id \notin includedToolCallIds
              THEN SanitizeToolRun(history, i + 1, toolCallIds,
                                   includedToolCallIds \cup {toolMsg.tool_call_id},
                                   Append(sanitized, toolMsg))
              ELSE SanitizeToolRun(history, i + 1, toolCallIds, includedToolCallIds, sanitized)
         ELSE SanitizeToolRun(history, i + 1, toolCallIds, includedToolCallIds, sanitized)
    ELSE [i |-> i, sanitized |-> sanitized]

RECURSIVE SanitizeFrom(_, _, _)
SanitizeFrom(history, i, sanitized) ==
    IF i > Len(history) THEN sanitized
    ELSE LET msg == history[i] IN
         IF msg.role = "user" \/ (msg.role = "assistant" /\ ~msg.has_tool_calls)
         THEN SanitizeFrom(history, i + 1, Append(sanitized, msg))
         ELSE IF msg.role = "assistant" /\ msg.has_tool_calls /\ Len(msg.tool_calls) > 0
         THEN LET run == SanitizeToolRun(history, i + 1, Range(msg.tool_calls), {},
                                         Append(sanitized, msg))
              IN SanitizeFrom(history, run.i, run.sanitized)
         ELSE SanitizeFrom(history, i + 1, sanitized)

\* Mutant: the scan starts at the second message.
SanitizeSkipsFirst(history) == SanitizeFrom(history, 2, <<>>)

sanitizeHistory(history) == SanitizeFrom(history, 1, <<>>)

(***************************************************************************)
(* The handlers are written as operators on a record S of the mutable      *)
(* state they touch, so that a handler that invokes several callbacks in   *)
(* a row (the close handler) composes them.                                *)
(***************************************************************************)
Cur ==
    [hist |-> conversationHistory, rec |-> inErrorRecovery, iter |-> iterationCount,
     turns |-> turns, rounds |-> rounds, inflight |-> inflight,
     saved |-> saved, status |-> <<>>]

Commit(S) ==
    /\ conversationHistory' = S.hist
    /\ inErrorRecovery' = S.rec
    /\ iterationCount' = S.iter
    /\ turns' = S.turns
    /\ rounds' = S.rounds
    /\ inflight' = S.inflight
    /\ saved' = S.saved
    /\ statusSent' = S.status
    /\ UNCHANGED <<serverVars, discoveryVars, extractVars>>

\* A handler that saves nothing and notifies nothing.
Quiet ==
    /\ saved' = saved
    /\ statusSent' = <<>>
    /\ UNCHANGED <<serverVars, discoveryVars, extractVars>>

\* The callback handed to client.sendMessage by handleUserMessage: the turn's outcome.
TurnCallback(S, t, outcome) ==
    [S EXCEPT !.turns[t].outcomes = Append(@, outcome)]

\* client.saveCallback(role, content, toolCalls) -> db.addMessage: one more row
\* of the session.  A tool row's content is the JSON text of the whole tool
\* message, so the row keeps its tool_call_id; tool_calls is stored when truthy.
saveCallback(S, c, msg) ==
    [S EXCEPT !.saved[c] = Append(@, msg)]

\* client.statusCallback(message)
statusCallback(S, message) ==
    [S EXCEPT !.status = Append(@, message)]

\* db.getSessionHistory: an empty content is loaded as null; a tool row is
\* parsed back into the tool message when it has a tool_call_id, otherwise
\* the row's JSON text stays as the content of a tool message without id.
LoadRow(row) ==
    IF row.role = "tool"
    THEN IF row.tool_call_id # NoId THEN row ELSE [row EXCEPT !.content = "json"]
    ELSE [row EXCEPT !.content = IF @ = "" THEN "null" ELSE @]

getSessionHistory(rows) == [i \in DOMAIN rows |-> LoadRow(rows[i])]

\* Mutant: the request carries the raw history.
IssueRawRequest(S, t) ==
    LET c == S.turns[t].ws
        k == S.turns[t].reqs + 1
    IN [S EXCEPT !.turns[t].reqs = k,
                 !.inflight = @ \cup {[turn |-> t, k |-> k,
                                       messages |-> <<SystemMessage>> \o S.hist[c]]}]

\* makeRequest as issued by sendMessage and continueConversation: the system
\* prompt followed by the sanitized history.
IssueRequest(S, t) ==
    LET c == S.turns[t].ws
        k == S.turns[t].reqs + 1
    IN [S EXCEPT !.turns[t].reqs = k,
                 !.inflight = @ \cup {[turn |-> t, k |-> k,
                                       messages |-> <<SystemMessage>> \o sanitizeHistory(S.hist[c])]}]

\* Mutant: a follow-up request counts as a recovery iteration.
ContinueCounts(S, t) ==
    LET c == S.turns[t].ws
    IN IssueRequest([S EXCEPT !.iter[c] = @ + 1], t)

continueConversation(S, t) == IssueRequest(S, t)

(***************************************************************************)
(* processAIResponse: the callback given to handleToolCall for one tool    *)
(* call of one assistant response (the closure of round tc[1]).            *)
(***************************************************************************)
Last(s) == s[Len(s)]

Pop(s) == SubSeq(s, 1, Len(s) - 1)

\* The backwards search for the last assistant message; 0 when there is none.
LastAssistantIndex(h) ==
    LET idx == {i \in DOMAIN h : h[i].role = "assistant"}
    IN IF idx = {} THEN 0 ELSE CHOOSE i \in idx : \A j \in idx : j <= i

\* The duplicate scan: backwards from the end, stopping at the first assistant
\* message whose tool_calls is truthy.
RECURSIVE IsDuplicateFrom(_, _, _)
IsDuplicateFrom(h, j, id) ==
    IF j = 0 THEN FALSE
    ELSE IF h[j].role = "tool" /\ h[j].tool_call_id = id THEN TRUE
    ELSE IF h[j].role = "assistant" /\ h[j].has_tool_calls THEN FALSE
    ELSE IsDuplicateFrom(h, j - 1, id)

\* Mutant: every error result restarts the count.
CountRestarts(rec, iter) == 1

\* iterationCount = 1 on entering recovery, iterationCount++ while in it.
NextIterationCount(rec, iter) == IF rec THEN iter + 1 ELSE 1

\* Mutant: the limit check off by one.
LimitReachedAtMax(count) == count >= maxIterations

\* Mutant: the limit is tested one iteration late.
LimitReachedLate(count) == count > maxIterations + 1

\* if (client.iterationCount > client.maxIterations)
LimitReached(count) == count > maxIterations

\* Error-recovery bookkeeping and the completion count, after the tool
\* message has been validated and appended.
RecoveryAndCompletion(S, tc, result) ==
    LET r == tc[1]
        t == S.rounds[r].turn
        c == S.turns[t].ws
        hasErrorResult == StatusOf(result.content) = "error"
        count == NextIterationCount(S.rec[c], S.iter[c])
        noted == statusCallback(S, IF S.rec[c] THEN "attempt" ELSE "Code execution failed")
        limit == statusCallback(noted, "Maximum iteration limit reached")
        success == statusCallback(S, "Code executed successfully!")
        done(X) == [X EXCEPT !.rounds[r].completed = @ + 1]
        after(X) == IF X.rounds[r].completed = Len(X.rounds[r].ids) /\ ~X.rounds[r].hasError
                    THEN continueConversation(X, t)
                    ELSE X
    IN IF hasErrorResult
       THEN IF LimitReached(count)
            THEN TurnCallback([limit EXCEPT !.rec[c] = FALSE, !.iter[c] = 0], t, "limit")
            ELSE after([done(noted) EXCEPT !.rec[c] = TRUE, !.iter[c] = count])
       ELSE IF S.rec[c]
            THEN after([done(success) EXCEPT !.rec[c] = FALSE, !.iter[c] = 0])
            ELSE after(done(S))

\* The cancellation branch: pop the last message if it is an assistant message.
CancelToolCall(S, tc) ==
    LET r == tc[1]
        t == S.rounds[r].turn
        c == S.turns[t].ws
        h == S.hist[c]
        popped == IF Len(h) > 0 /\ Last(h).role = "assistant" THEN Pop(h) ELSE h
    IN TurnCallback([S EXCEPT !.hist[c] = popped], t, "cancelled")

ToolCallback(S, tc, err, result) ==
    LET r == tc[1]
        t == S.rounds[r].turn
        c == S.turns[t].ws
        h == S.hist[c]
        la == LastAssistantIndex(h)
        fatal == TurnCallback([S EXCEPT !.rounds[r].hasError = TRUE], t, "error")
    IN IF err = "USER_CANCELLED" THEN CancelToolCall(S, tc)
       ELSE IF err # "none" THEN fatal
       ELSE IF result.role # "tool" THEN fatal
       ELSE IF result.tool_call_id = NoId THEN fatal
       ELSE IF la = 0 \/ ~h[la].has_tool_calls
               \/ result.tool_call_id \notin Range(h[la].tool_calls) THEN fatal
       ELSE LET isDuplicate == IsDuplicateFrom(h, Len(h), result.tool_call_id)
                pushed == IF isDuplicate THEN S
                          ELSE [S EXCEPT !.hist[c] = Append(@, result)]
            IN RecoveryAndCompletion(saveCallback(pushed, c, result), tc, result)

(***************************************************************************)
(* handleToolCall: the callback given to client.evalCallback.  err is the  *)
(* error's message ("none" for no error); result is the formatted result.  *)
(***************************************************************************)
NoResult == [type |-> "none", validationErrors |-> FALSE]

\* err.message.includes('cancelled by user')
IsUserCancellation(err) == err = "Code execution cancelled by user"

\* toolCall.id of the call that the closure tc belongs to.
IdOfToolCall(S, tc) ==
    IF S.rounds[tc[1]].calls[tc[2]] = "noid" THEN NoId ELSE tc

HandleToolCallResult(S, tc, err, result) ==
    LET id == IdOfToolCall(S, tc)
    IN IF err # "none"
       THEN IF IsUserCancellation(err)
            THEN ToolCallback(S, tc, "USER_CANCELLED", NoResult)
            ELSE ToolCallback(S, tc, "none", ToolMessage(id, "execution_failed"))
       ELSE IF result.type = "error"
            THEN ToolCallback(S, tc, "none",
                     ToolMessage(id, IF result.validationErrors THEN "error_validation"
                                                                ELSE "error"))
            ELSE ToolCallback(S, tc, "none", ToolMessage(id, "success"))

\* handleToolCall for a call that does not name the configured tool.
UnknownTool(S, tc) ==
    ToolCallback(S, tc, "none", ToolMessage(IdOfToolCall(S, tc), "unknown_tool"))

\* resultHandler.formatForVisualization: copies type, value, raw, stdout,
\* stderr, error, logs and executionTime; validationErrors is not copied.
formatForVisualization(result) ==
    [type |-> result.type, validationErrors |-> FALSE]

(***************************************************************************)
(* Initial state: the server is listening, nobody is connected.            *)
(***************************************************************************)
NoPending == [m \in {} |-> [code |-> NoId, callback |-> NoId, ws |-> "none"]]

\* The modules beside the chat server before their first call: no server
\* started, an empty namespace cache, no text handed to extractHTML.
Unused ==
    /\ serverState = NoServer
    /\ sentinel = NoSentinel
    /\ namespaceCache = NoCache
    /\ discoverCalls = <<>>
    /\ discoveryAudit = [succeeded |-> NoCache, cleared |-> FALSE]
    /\ htmlInput = NoContent
    /\ extracted = NoContent

Init ==
    /\ conn = [c \in Conns |-> "none"]
    /\ aiClients = {}
    /\ conversationHistory = [c \in Conns |-> <<>>]
    /\ inErrorRecovery = [c \in Conns |-> FALSE]
    /\ iterationCount = [c \in Conns |-> 0]
    /\ turns = <<>>
    /\ rounds = <<>>
    /\ inflight = {}
    /\ pendingCodeExecutions = NoPending
    /\ evals = EmptyBag
    /\ saved = [c \in Conns |-> <<>>]
    /\ statusSent = <<>>
    /\ audit = [started |-> {}, refused |-> {}, foreign |-> {},
                resolved |-> [m \in {} |-> <<>>]]
    /\ Unused

\* Every execution id generated so far (a client may name any of them).
AllIds == DOMAIN audit.resolved

Without(f, ids) == [m \in DOMAIN f \ ids |-> f[m]]

\* History variable audit: started (executions whose code reached evalClojure),
\* refused (rejected, or closed, before any approval), foreign (approved or
\* rejected by a connection other than the owner), resolved (the calls of
\* each execution's callback, in order).
Resolved(a, m, kind) == [a EXCEPT !.resolved[m] = Append(@, kind)]

Acted(a, pending, c, m) ==
    IF pending[m].ws # c THEN [a EXCEPT !.foreign = @ \cup {m}] ELSE a

(***************************************************************************)
(* wss.on('connection')                                                    *)
(***************************************************************************)
Connect(c) ==
    /\ conn[c] = "none"
    /\ conn' = [conn EXCEPT ![c] = "open"]
    /\ Quiet
    /\ UNCHANGED <<aiClients, conversationHistory, inErrorRecovery, iterationCount,
                   turns, rounds, inflight, pendingCodeExecutions, evals, audit>>

(***************************************************************************)
(* handleUserMessage and client.sendMessage.  The client's model key names *)
(* a configured model (the page offers only those), so getEndpoint returns.*)
(***************************************************************************)
\* createAIClient with the session's stored history.
CreateClient(S, c) ==
    [S EXCEPT !.hist[c] = sanitizeHistory(getSessionHistory(S.saved[c])),
              !.rec[c] = FALSE, !.iter[c] = 0]

sendMessage(S, c) ==
    LET t == Len(S.turns) + 1
        pushed == [S EXCEPT !.hist[c] = Append(@, UserMessage("text")),
                            !.turns = Append(@, [ws |-> c, outcomes |-> <<>>, reqs |-> 0])]
    IN IssueRequest(saveCallback(pushed, c, UserMessage("text")), t)

HandleUserMessage(c, L) ==
    /\ conn[c] = "open"
    /\ Len(turns) < L.turns
    /\ aiClients' = aiClients \cup {c}
    /\ Commit(sendMessage(IF c \in aiClients THEN Cur ELSE CreateClient(Cur, c), c))
    /\ UNCHANGED <<conn, pendingCodeExecutions, evals, audit>>

(***************************************************************************)
(* The response to a chat-completion request: makeRequest's callback and   *)
(* processAIResponse.                                                      *)
(***************************************************************************)
Answered(S, q) == [S EXCEPT !.inflight = @ \ {q}]

\* Mutant: a failed request is issued again.
RequestRetried(S, q) == IssueRequest(Answered(S, q), q.turn)

\* if (err) { return callback(err, null); }
RequestFailed(S, q) == TurnCallback(Answered(S, q), q.turn, "error")

\* req.on('error'), a non-2xx status or an unparseable body.
LLMTransportError(q) ==
    /\ q \in inflight
    /\ Commit(RequestFailed(Cur, q))
    /\ UNCHANGED <<conn, aiClients, pendingCodeExecutions, evals, audit>>

\* A body without choices[0].message.
LLMInvalidResponse(q) ==
    /\ q \in inflight
    /\ Commit(RequestFailed(Cur, q))
    /\ UNCHANGED <<conn, aiClients, pendingCodeExecutions, evals, audit>>

\* A message whose tool_calls is absent (has = FALSE) or an empty list
\* (has = TRUE): the final response.
ProcessFinalResponse(S, t, content, has) ==
    LET c == S.turns[t].ws
        assistantMsg == AssistantMessage(content, has, <<>>)
        pushed == saveCallback([S EXCEPT !.hist[c] = Append(@, assistantMsg)], c, assistantMsg)
        reset == IF pushed.rec[c]
                 THEN [pushed EXCEPT !.rec[c] = FALSE, !.iter[c] = 0]
                 ELSE pushed
    IN TurnCallback(reset, t, "final")

LLMFinalResponse(q, has) ==
    /\ q \in inflight
    /\ Commit(ProcessFinalResponse(Answered(Cur, q), q.turn, "answer", has))
    /\ UNCHANGED <<conn, aiClients, pendingCodeExecutions, evals, audit>>

\* A message with tool calls: the assistant message is appended (its
\* commentary cleared during error recovery) and a new closure counts the
\* completions.  calls lists the kinds of the message's tool calls; ids are
\* the closures of handleToolCall, one per call.
ProcessToolCallResponse(S, t, content, calls) ==
    LET c == S.turns[t].ws
        r == Len(S.rounds) + 1
        ids == ToolCallIds(r, Len(calls))
        tool_calls == [k \in DOMAIN calls |-> IF calls[k] = "noid" THEN NoId ELSE ids[k]]
        shown == IF S.rec[c] /\ content # "" THEN "" ELSE content
        said == saveCallback(S, c, AssistantMessage(content, TRUE, tool_calls))
    IN [said EXCEPT !.hist[c] = Append(@, AssistantMessage(shown, TRUE, tool_calls)),
                    !.rounds = Append(@, [turn |-> t, ids |-> ids, calls |-> calls,
                                          recovering |-> S.rec[c],
                                          completed |-> 0, hasError |-> FALSE])]

\* message.tool_calls.forEach(handleToolCall), from call k on.  A call of the
\* configured tool is handed to client.evalCallback (registered lists those
\* closures); another name is answered at once; arguments that JSON.parse
\* rejects throw out of forEach into makeRequest's try/catch, which calls the
\* request's callback with Error('Failed to parse response: ...').
RECURSIVE HandleToolCalls(_, _, _)
HandleToolCalls(S, r, k) ==
    LET calls == S.rounds[r].calls
        t == S.rounds[r].turn
    IN IF k > Len(calls) THEN [S |-> S, registered |-> <<>>]
       ELSE IF calls[k] = "malformed"
            THEN [S |-> TurnCallback(S, t, "error"), registered |-> <<>>]
       ELSE IF calls[k] = "unknown"
            THEN HandleToolCalls(UnknownTool(S, <<r, k>>), r, k + 1)
       ELSE LET rest == HandleToolCalls(S, r, k + 1)
            IN [rest EXCEPT !.registered = <<(<<r, k>>)>> \o @]

\* The lists of tool calls a response may carry.
ToolCallLists(L) == UNION {[1..n -> L.kinds] : n \in 1..L.calls}

\* evalCallbackWithApproval, called by handleToolCall for every tool call of
\* the response: the execution is stored under a fresh messageId.
evalCallbackWithApproval(pending, c, ids) ==
    [m \in Range(ids) |-> [code |-> m, callback |-> m, ws |-> c]] @@ pending

LLMToolCallResponse(q, calls, L) ==
    /\ q \in inflight
    /\ Len(rounds) < L.rounds
    /\ calls \in ToolCallLists(L)
    /\ LET S == ProcessToolCallResponse(Answered(Cur, q), q.turn, "commentary", calls)
           handled == HandleToolCalls(S, Len(S.rounds), 1)
           ids == handled.registered
       IN /\ Commit(handled.S)
          /\ pendingCodeExecutions' =
                 evalCallbackWithApproval(pendingCodeExecutions, turns[q.turn].ws, ids)
          /\ audit' = [audit EXCEPT !.resolved = [m \in Range(ids) |-> <<>>] @@ @]
    /\ UNCHANGED <<conn, aiClients, evals>>

(***************************************************************************)
(* evalClojure: validation by clj-kondo (when enabled), then nREPL eval.   *)
(* An invocation in flight remembers the messageId and the callback that   *)
(* handleCodeApproval captured.  The server accepts connections only after *)
(* nREPL is connected, so the 'nREPL not connected' exit is not reachable. *)
(***************************************************************************)
\* lint is what clj-kondo does with the invocation's code (a LintOutcomes
\* value).
Eval(m, cb, stage, lint) ==
    [messageId |-> m, callback |-> cb, stage |-> stage, lint |-> lint]

evalClojure(m, cb, lint) ==
    IF codeValidationEnabled THEN Eval(m, cb, "validate", lint)
    ELSE Eval(m, cb, "eval", "none")

\* executeCode: nreplConnection.eval(code, ...)
executeCode(e) == [e EXCEPT !.stage = "eval"]

EvalsInFlight(m) ==
    LET mine == {e \in BagToSet(evals) : e.messageId = m}
    IN BagCardinality([e \in mine |-> CopiesIn(e, evals)])

\* handleCodeApproval.  The code run is the edited code or the pending code;
\* the model keeps no code text, the outcome of the run is any outcome.
ApprovalStarts(pending, m) == m \in DOMAIN pending

CodeApproved(c, m, L) ==
    /\ conn[c] = "open"
    /\ m \in AllIds
    /\ IF ApprovalStarts(pendingCodeExecutions, m)
       THEN /\ EvalsInFlight(m) < L.evals
            /\ \E lint \in L.findings :
                   evals' = evals (+) SetToBag({evalClojure(m, pendingCodeExecutions[m].callback,
                                                           lint)})
            /\ audit' = Acted([audit EXCEPT !.started = @ \cup {m}], pendingCodeExecutions, c, m)
       ELSE UNCHANGED <<evals, audit>>
    /\ Quiet
    /\ UNCHANGED <<conn, aiClients, conversationHistory, inErrorRecovery, iterationCount,
                   turns, rounds, inflight, pendingCodeExecutions>>

\* Mutant: the rejection leaves the execution in the map.
RejectionKeeps(pending, m) == pending

\* handleCodeRejection
RejectionRemoves(pending, m) == Without(pending, {m})

CodeRejected(c, m) ==
    /\ conn[c] = "open"
    /\ m \in AllIds
    /\ IF m \in DOMAIN pendingCodeExecutions
       THEN /\ pendingCodeExecutions' = RejectionRemoves(pendingCodeExecutions, m)
            /\ Commit(HandleToolCallResult(Cur, pendingCodeExecutions[m].callback,
                                           "Code execution cancelled by user", NoResult))
            /\ audit' = [Acted(Resolved(audit, m, "cancelled"), pendingCodeExecutions, c, m)
                            EXCEPT !.refused = IF m \in audit.started THEN @ ELSE @ \cup {m}]
       ELSE /\ Quiet
            /\ UNCHANGED <<conversationHistory, inErrorRecovery, iterationCount, turns, rounds,
                           inflight, pendingCodeExecutions, audit>>
    /\ UNCHANGED <<conn, aiClients, evals>>

\* ws.on('close'): every pending execution of the connection, in insertion
\* order, has its callback called with Error('Connection closed') and is
\* deleted; the client leaves the map.
IdBefore(a, b) == a[1] < b[1] \/ (a[1] = b[1] /\ a[2] <= b[2])

ClosePendingError == "Connection closed"

RECURSIVE CloseAll(_, _, _)
CloseAll(S, pending, ids) ==
    IF ids = {} THEN S
    ELSE LET m == CHOOSE x \in ids : \A y \in ids : IdBefore(x, y)
         IN CloseAll(HandleToolCallResult(S, pending[m].callback, ClosePendingError, NoResult),
                     pending, ids \ {m})

RECURSIVE ResolvedAll(_, _, _)
ResolvedAll(a, ids, kind) ==
    IF ids = {} THEN a
    ELSE LET m == CHOOSE x \in ids : TRUE
         IN ResolvedAll(Resolved(a, m, kind), ids \ {m}, kind)

OwnedBy(pending, c) == {m \in DOMAIN pending : pending[m].ws = c}

Close(c) ==
    /\ conn[c] = "open"
    /\ conn' = [conn EXCEPT ![c] = "closed"]
    /\ LET mine == OwnedBy(pendingCodeExecutions, c)
       IN /\ Commit(CloseAll(Cur, pendingCodeExecutions, mine))
          /\ pendingCodeExecutions' = Without(pendingCodeExecutions, mine)
          /\ audit' = [ResolvedAll(audit, mine, "closed") EXCEPT
                          !.refused = @ \cup (mine \ audit.started)]
    /\ aiClients' = aiClients \ {c}
    /\ UNCHANGED evals

(***************************************************************************)
(* Completion of an evalClojure invocation.  handleCodeApproval's callback *)
(* deletes the pending execution and calls the stored callback.            *)
(***************************************************************************)
EvalCallback(e, err, result) ==
    /\ pendingCodeExecutions' = Without(pendingCodeExecutions, {e.messageId})
    /\ Commit(HandleToolCallResult(Cur, e.callback, err, result))
    /\ audit' = Resolved(audit, e.messageId, "result")
    /\ evals' = evals (-) SetToBag({e})
    /\ UNCHANGED <<conn, aiClients>>

(***************************************************************************)
(* codeValidator.validateCode: clj-kondo is spawned and the callback is    *)
(* called from the child's 'error' event or from its 'close' event.  The   *)
(* result of validateCode is the list of the callback's invocations.       *)
(***************************************************************************)
\* kondo.on('error'): hasError = true; callback(null, {valid: true, skipped: true})
OnKondoError == [valid |-> TRUE, skipped |-> TRUE]

\* findings.filter(level === 'error' || level === 'warning'); valid is
\* false when a finding is left.
FindingsLeft(out) == out \in {"warnings", "errors"}

\* Mutant: 'close' reports although 'error' has reported.
OnKondoCloseAlways(hasError, out) ==
    IF out = "unparsable" THEN <<[valid |-> TRUE, skipped |-> TRUE]>>
    ELSE IF out = "empty" THEN <<[valid |-> TRUE, skipped |-> FALSE]>>
    ELSE <<[valid |-> ~FindingsLeft(out), skipped |-> FALSE]>>

\* kondo.on('close'): nothing after 'error'; an empty stdout is valid; a
\* stdout that JSON.parse rejects is skipped; otherwise the findings decide.
OnKondoClose(hasError, out) ==
    IF hasError THEN <<>>
    ELSE IF out = "unparsable" THEN <<[valid |-> TRUE, skipped |-> TRUE]>>
    ELSE IF out = "empty" THEN <<[valid |-> TRUE, skipped |-> FALSE]>>
    ELSE <<[valid |-> ~FindingsLeft(out), skipped |-> FALSE]>>

\* A child that cannot be spawned emits 'error' and then 'close'.
validateCode(out) ==
    IF out = "unavailable"
    THEN <<OnKondoError>> \o OnKondoClose(TRUE, "empty")
    ELSE OnKondoClose(FALSE, out)

\* validateErr, valid, or skipped: executeCode(), once per invocation of
\* the validator's callback.
ValidationProceeds(e) ==
    /\ BagIn(e, evals)
    /\ e.stage = "validate"
    /\ LET results == validateCode(e.lint)
       IN /\ results # <<>>
          /\ \A i \in DOMAIN results : results[i].valid
          /\ evals' = (evals (-) SetToBag({e}))
                          (+) [x \in {executeCode(e)} |-> Len(results)]
    /\ Quiet
    /\ UNCHANGED <<conn, aiClients, conversationHistory, inErrorRecovery, iterationCount,
                   turns, rounds, inflight, pendingCodeExecutions, audit>>

\* validateResult.valid is false: the formatted validation error is the result.
ValidationRejects(e) ==
    /\ BagIn(e, evals)
    /\ e.stage = "validate"
    /\ validateCode(e.lint) = <<[valid |-> FALSE, skipped |-> FALSE]>>
    /\ EvalCallback(e, "none",
                    formatForVisualization([type |-> "error", validationErrors |-> TRUE]))

\* nreplConnection.eval's callback: an error, or messages serialized to a
\* result whose type is 'error' or a value type.
NreplEvalDone(e, outcome) ==
    /\ BagIn(e, evals)
    /\ e.stage = "eval"
    /\ outcome \in {"err", "error", "value"}
    /\ IF outcome = "err"
       THEN EvalCallback(e, "nREPL eval error", NoResult)
       ELSE EvalCallback(e, "none",
                formatForVisualization([type |-> outcome, validationErrors |-> FALSE]))

(***************************************************************************)
(* Specifications                                                          *)
(***************************************************************************)
NextWith(L) ==
    \/ \E c \in L.conns : Connect(c)
    \/ \E c \in L.conns : HandleUserMessage(c, L)
    \/ \E q \in inflight : LLMTransportError(q)
    \/ \E q \in inflight : LLMInvalidResponse(q)
    \/ \E q \in inflight, has \in BOOLEAN : LLMFinalResponse(q, has)
    \/ \E q \in inflight, calls \in ToolCallLists(L) : LLMToolCallResponse(q, calls, L)
    \/ \E c \in L.conns, m \in AllIds : CodeApproved(c, m, L)
    \/ \E c \in L.conns, m \in AllIds : CodeRejected(c, m)
    \/ \E c \in L.conns : Close(c)
    \/ \E e \in BagToSet(evals) : ValidationProceeds(e)
    \/ \E e \in BagToSet(evals) : ValidationRejects(e)
    \/ \E e \in BagToSet(evals), o \in {"err", "error", "value"} : NreplEvalDone(e, o)

Next == NextWith(GeneralLimits)

Spec == Init /\ [][Next]_vars

NextFanOut == NextWith(FanOutLimits)

SpecFanOut == Init /\ [][NextFanOut]_vars

NextRecovery == NextWith(RecoveryLimits)

SpecRecovery == Init /\ [][NextRecovery]_vars

NextTools == NextWith(ToolLimits)

SpecTools == Init /\ [][NextTools]_vars

NextValidator == NextWith(ValidatorLimits)

SpecValidator == Init /\ [][NextValidator]_vars

\* Approvals and executions only: nobody rejects, disconnects or fails.
NextIntegrity ==
    \/ \E c \in IntegrityLimits.conns : Connect(c)
    \/ \E c \in IntegrityLimits.conns : HandleUserMessage(c, IntegrityLimits)
    \/ \E q \in inflight, has \in BOOLEAN : LLMFinalResponse(q, has)
    \/ \E q \in inflight, calls \in ToolCallLists(IntegrityLimits) :
           LLMToolCallResponse(q, calls, IntegrityLimits)
    \/ \E c \in IntegrityLimits.conns, m \in AllIds : CodeApproved(c, m, IntegrityLimits)
    \/ \E e \in BagToSet(evals) : ValidationProceeds(e)
    \/ \E e \in BagToSet(evals) : NreplEvalDone(e, "value")

SpecIntegrity == Init /\ [][NextIntegrity]_vars

(***************************************************************************)
(* A session whose store already holds a conversation (written by an       *)
(* earlier run of the server, possibly interrupted): createAIClient is     *)
(* handed db.getSessionHistory(sessionId).  The rows are any list of at    *)
(* most MaxStored rows: user rows, assistant rows without tool_calls, with *)
(* an empty list, with one or two calls, tool rows with a matching, an     *)
(* unknown or no id, and rows of another role.                             *)
(***************************************************************************)
StoredIdA == <<0, 1>>

StoredIdB == <<0, 2>>

StoredRows ==
    {UserMessage("text"),
     AssistantMessage("answer", FALSE, <<>>),
     AssistantMessage("answer", TRUE, <<>>),
     AssistantMessage("", TRUE, <<StoredIdA>>),
     AssistantMessage("commentary", TRUE, <<StoredIdA, StoredIdB>>),
     ToolMessage(StoredIdA, "success"),
     ToolMessage(StoredIdB, "error"),
     ToolMessage(NoId, "success"),
     SystemMessage}

StoredHistories == UNION {[1..n -> StoredRows] : n \in 0..MaxStored}

InitLoad ==
    /\ conn = [c \in Conns |-> IF c \in LoadLimits.conns THEN "open" ELSE "none"]
    /\ aiClients = {}
    /\ conversationHistory = [c \in Conns |-> <<>>]
    /\ inErrorRecovery = [c \in Conns |-> FALSE]
    /\ iterationCount = [c \in Conns |-> 0]
    /\ turns = <<>>
    /\ rounds = <<>>
    /\ inflight = {}
    /\ pendingCodeExecutions = NoPending
    /\ evals = EmptyBag
    /\ \E h \in StoredHistories :
           saved = [c \in Conns |-> IF c \in LoadLimits.conns THEN h ELSE <<>>]
    /\ statusSent = <<>>
    /\ audit = [started |-> {}, refused |-> {}, foreign |-> {},
                resolved |-> [m \in {} |-> <<>>]]
    /\ Unused

\* createAIClient(config, evalCallback, history, saveCallback, statusCallback)
CreateFromStore(c) ==
    /\ conn[c] = "open"
    /\ c \notin aiClients
    /\ aiClients' = aiClients \cup {c}
    /\ Commit(CreateClient(Cur, c))
    /\ UNCHANGED <<conn, pendingCodeExecutions, evals, audit>>

NextLoad ==
    \/ \E c \in LoadLimits.conns : CreateFromStore(c)
    \/ \E c \in LoadLimits.conns : HandleUserMessage(c, LoadLimits)

SpecLoad == InitLoad /\ [][NextLoad]_vars

(***************************************************************************)
(* Vocabulary of the properties                                            *)
(***************************************************************************)
TurnOfCall(m) == rounds[m[1]].turn

ConnOfCall(m) == turns[TurnOfCall(m)].ws

CallsOfTurn(t) == UNION {Range(rounds[r].ids) : r \in {x \in DOMAIN rounds : rounds[x].turn = t}}

TurnsOf(c) == {t \in DOMAIN turns : turns[t].ws = c}

Outcomes(t) == Range(turns[t].outcomes)

\* The assistant message that issued tool call m, and the tool messages answering m.
IssuedCall(msg, m) == msg.role = "assistant" /\ m \in Range(msg.tool_calls)

AnswersCall(msg, m) == msg.role = "tool" /\ msg.tool_call_id = m

Holds(h, P(_)) == \E i \in DOMAIN h : P(h[i])

WithoutIssuer(h, m) == SelectSeq(h, LAMBDA msg : ~IssuedCall(msg, m))

\* A turn is in flight while it awaits the LLM or a tool result.
AwaitingLLM(t) == \E q \in inflight : q.turn = t

AwaitingTool(t) ==
    \E m \in CallsOfTurn(t) : m \in DOMAIN pendingCodeExecutions \/ EvalsInFlight(m) > 0

InFlight(t) == turns[t].outcomes = <<>> /\ (AwaitingLLM(t) \/ AwaitingTool(t))

\* A callback call of execution m was appended in this step.
NewlyResolved(m, kind) ==
    /\ m \in DOMAIN audit.resolved
    /\ audit'.resolved[m] = Append(audit.resolved[m], kind)

(***************************************************************************)
(* C1: a follow-up chat-completion request of a turn is issued only when   *)
(* every tool call issued in that turn has resolved (its callback has been *)
(* called), whatever the order of approvals, rejections, completions and   *)
(* repeated approvals.                                                     *)
(***************************************************************************)
C1_RequestAfterAllResolved ==
    [][\A t \in DOMAIN turns :
          turns'[t].reqs > turns[t].reqs
              => \A m \in CallsOfTurn(t) : audit'.resolved[m] # <<>>]_vars

(***************************************************************************)
(* C2: the callback of a pending execution is called at most once, and     *)
(* once the execution has left the map with no run in flight, exactly once.*)
(***************************************************************************)
C2_ResolvedExactlyOnce ==
    \A m \in DOMAIN audit.resolved :
        /\ Len(audit.resolved[m]) <= 1
        /\ (m \notin DOMAIN pendingCodeExecutions /\ EvalsInFlight(m) = 0)
               => Len(audit.resolved[m]) = 1

(***************************************************************************)
(* C3: at most one turn of a session is in flight at any time.             *)
(***************************************************************************)
C3_OneTurnInFlight ==
    \A c \in Conns : Cardinality({t \in TurnsOf(c) : InFlight(t)}) <= 1

(***************************************************************************)
(* C4: pairing invariant of the in-memory history: every tool message is   *)
(* preceded, with only tool messages in between, by the assistant message  *)
(* whose tool_calls holds its id, and no id is answered twice.             *)
(***************************************************************************)
Paired(h) ==
    /\ \A i \in DOMAIN h :
          h[i].role = "tool" =>
              \E j \in 1..(i - 1) :
                  /\ IssuedCall(h[j], h[i].tool_call_id)
                  /\ \A k \in (j + 1)..(i - 1) : h[k].role = "tool"
    /\ \A i, j \in DOMAIN h :
          (h[i].role = "tool" /\ h[j].role = "tool" /\ h[i].tool_call_id = h[j].tool_call_id)
              => i = j

C4_HistoryPaired == \A c \in Conns : Paired(conversationHistory[c])

(***************************************************************************)
(* C5: when a tool call resolves as a user cancellation, exactly the       *)
(* assistant message that issued it leaves the history, the turn's         *)
(* callback receives the cancellation, and the turn issues no further      *)
(* chat-completion request.                                                *)
(***************************************************************************)
C5_CancellationRetracts ==
    [][/\ \A m \in AllIds :
             NewlyResolved(m, "cancelled") =>
                 /\ conversationHistory'[ConnOfCall(m)]
                        = WithoutIssuer(conversationHistory[ConnOfCall(m)], m)
                 /\ ~Holds(conversationHistory'[ConnOfCall(m)], LAMBDA msg : IssuedCall(msg, m))
                 /\ turns'[TurnOfCall(m)].outcomes
                        = Append(turns[TurnOfCall(m)].outcomes, "cancelled")
                 /\ turns'[TurnOfCall(m)].reqs = turns[TurnOfCall(m)].reqs
       /\ \A t \in DOMAIN turns :
             "cancelled" \in Outcomes(t) => turns'[t].reqs = turns[t].reqs]_vars

(***************************************************************************)
(* C6: after a turn has ended in a user cancellation, no assistant or tool *)
(* message of that turn remains in the history.                            *)
(***************************************************************************)
OfTurn(msg, t) ==
    \E m \in CallsOfTurn(t) : IssuedCall(msg, m) \/ AnswersCall(msg, m)

C6_CancelledTurnLeavesNothing ==
    \A t \in DOMAIN turns :
        "cancelled" \in Outcomes(t)
            => ~Holds(conversationHistory[turns[t].ws], LAMBDA msg : OfTurn(msg, t))

(***************************************************************************)
(* C7: when a connection closes, each pending execution it owns leaves the *)
(* map and resolves as a cancellation: the turn's callback receives the    *)
(* cancellation, the assistant tool-call message is retracted, no tool     *)
(* message is produced and no request is issued.                           *)
(***************************************************************************)
C7_CloseCancels ==
    [][\A c \in Conns :
          (conn[c] = "open" /\ conn'[c] = "closed") =>
              \A m \in OwnedBy(pendingCodeExecutions, c) :
                  /\ m \notin DOMAIN pendingCodeExecutions'
                  /\ "cancelled" \in Range(turns'[TurnOfCall(m)].outcomes)
                  /\ ~Holds(conversationHistory'[ConnOfCall(m)],
                            LAMBDA msg : IssuedCall(msg, m) \/ AnswersCall(msg, m))
                  /\ turns'[TurnOfCall(m)].reqs = turns[TurnOfCall(m)].reqs]_vars

(***************************************************************************)
(* C8: code reaches the validator or nREPL only for an execution that was  *)
(* pending when a code_approved naming it arrived; an execution rejected,  *)
(* or closed with its connection, before any approval never runs and has   *)
(* no result.                                                              *)
(***************************************************************************)
C8_ApprovalGate ==
    /\ \A e \in BagToSet(evals) : e.messageId \in audit.started
    /\ \A m \in DOMAIN audit.resolved :
          "result" \in Range(audit.resolved[m]) => m \in audit.started
    /\ audit.started \cap audit.refused = {}
    /\ \A m \in audit.refused : m \notin DOMAIN pendingCodeExecutions /\ EvalsInFlight(m) = 0

\* A rejected execution while a client is still connected and can send code_approved.
C8_Witness ==
    \E m \in audit.refused :
        /\ "cancelled" \in Range(audit.resolved[m])
        /\ \E c \in Conns : conn[c] = "open"

(***************************************************************************)
(* C9: no execution is approved or rejected by a connection that does not  *)
(* own it.                                                                 *)
(***************************************************************************)
C9_NoForeignResolution == audit.foreign = {}

(***************************************************************************)
(* C10: the error-recovery scenario.  One turn in the session, every       *)
(* assistant response carries one tool call, every tool call is answered   *)
(* once with an error result.                                              *)
(***************************************************************************)
RecoveryShape(h) ==
    /\ Len(h) >= 1
    /\ h[1].role = "user"
    /\ \A i \in 2..Len(h) :
          IF i % 2 = 0
          THEN h[i].role = "assistant" /\ h[i].has_tool_calls /\ Len(h[i].tool_calls) = 1
          ELSE h[i].role = "tool" /\ StatusOf(h[i].content) = "error"

RecoveryScenario(c) ==
    /\ Cardinality(TurnsOf(c)) = 1
    /\ RecoveryShape(conversationHistory[c])
    /\ \A m \in DOMAIN audit.resolved : Len(audit.resolved[m]) <= 1

ErrorResults(h) == Cardinality({i \in DOMAIN h : h[i].role = "tool"})

TheTurn(c) == CHOOSE t \in TurnsOf(c) : TRUE

\* C10, one result later: the turn ends with the iteration-limit error when
\* the (maxIterations + 1)-th consecutive error result is processed, not
\* before, and then inErrorRecovery is false and iterationCount is 0.
C10_LimitAfterMaxIterations ==
    \A c \in Conns :
        RecoveryScenario(c) =>
            LET n == ErrorResults(conversationHistory[c]) IN
            /\ n <= maxIterations + 1
            /\ n <= maxIterations =>
                   /\ "limit" \notin Outcomes(TheTurn(c))
                   /\ inErrorRecovery[c] = (n > 0)
                   /\ iterationCount[c] = n
            /\ n = maxIterations + 1 =>
                   /\ turns[TheTurn(c)].outcomes = <<"limit">>
                   /\ ~inErrorRecovery[c]
                   /\ iterationCount[c] = 0

C10_Witness ==
    \E c \in Conns :
        /\ RecoveryScenario(c)
        /\ ErrorResults(conversationHistory[c]) = maxIterations + 1
        /\ turns[TheTurn(c)].outcomes = <<"limit">>

\* C10, at the maxIterations-th result: the turn ends with the iteration-limit
\* error when the maxIterations-th consecutive error result is processed.
C10_LimitAtMaxIterations ==
    \A c \in Conns :
        (RecoveryScenario(c) /\ ErrorResults(conversationHistory[c]) = maxIterations)
            => /\ "limit" \in Outcomes(TheTurn(c))
               /\ ~inErrorRecovery[c]
               /\ iterationCount[c] = 0

(***************************************************************************)
(* C11: the number of chat-completion requests of a turn is bounded by the *)
(* iteration limit: the first request and one follow-up per recovery       *)
(* iteration, whatever the tool outcomes and however often the LLM answers *)
(* with tool calls.                                                        *)
(***************************************************************************)
C11_RequestsBounded ==
    \A t \in DOMAIN turns : turns[t].reqs <= maxIterations + 1

(***************************************************************************)
(* Rows written by saveCallback in a step.  A tool result is processed     *)
(* (validated, saved, counted) exactly when its row is written.            *)
(***************************************************************************)
NewRows(c) == SubSeq(saved'[c], Len(saved[c]) + 1, Len(saved'[c]))

ErrorRows(rows) ==
    Cardinality({i \in DOMAIN rows : rows[i].role = "tool" /\ StatusOf(rows[i].content) = "error"})

Processed(c, status) ==
    /\ Len(NewRows(c)) = 1
    /\ NewRows(c)[1].role = "tool"
    /\ StatusOf(NewRows(c)[1].content) = status

(***************************************************************************)
(* C12: processing a tool result with status error enters recovery with    *)
(* iterationCount 1, or adds 1 to iterationCount when recovery is active,  *)
(* unless the new count exceeds maxIterations, when recovery is reset;     *)
(* processing a result with status success in recovery resets recovery and *)
(* emits the success notification.                                         *)
(***************************************************************************)
C12_RecoveryBookkeeping ==
    [][\A c \in Conns :
          /\ Processed(c, "error") =>
                 IF ~inErrorRecovery[c]
                 THEN inErrorRecovery'[c] /\ iterationCount'[c] = 1
                 ELSE IF iterationCount[c] + 1 > maxIterations
                      THEN ~inErrorRecovery'[c] /\ iterationCount'[c] = 0
                      ELSE inErrorRecovery'[c] /\ iterationCount'[c] = iterationCount[c] + 1
          /\ (Processed(c, "success") /\ inErrorRecovery[c]) =>
                 /\ ~inErrorRecovery'[c]
                 /\ iterationCount'[c] = 0
                 /\ "Code executed successfully!" \in Range(statusSent')]_vars

\* A success result has just ended a recovery.
C12_Witness ==
    /\ "Code executed successfully!" \in Range(statusSent)
    /\ \E c \in Conns : ErrorRows(saved[c]) > 0 /\ ~inErrorRecovery[c] /\ iterationCount[c] = 0

\* C12 without the limit: every error result processed in recovery leaves
\* recovery active with iterationCount one higher.
C12_ErrorAlwaysCounts ==
    [][\A c \in Conns :
          Processed(c, "error") =>
              /\ inErrorRecovery'[c]
              /\ iterationCount'[c] = IF inErrorRecovery[c] THEN iterationCount[c] + 1 ELSE 1]_vars

(***************************************************************************)
(* C13: iterationCount grows, and inErrorRecovery becomes true, only by    *)
(* processing tool results with status error, by one per result; issuing a *)
(* request and receiving its response never do.                            *)
(***************************************************************************)
C13_OnlyErrorResultsCount ==
    [][\A c \in Conns :
          /\ iterationCount'[c] <= iterationCount[c] + ErrorRows(NewRows(c))
          /\ (inErrorRecovery'[c] /\ ~inErrorRecovery[c]) => ErrorRows(NewRows(c)) > 0]_vars

\* In recovery after one error result, the follow-up request has been issued
\* and answered, and the count is still 1.
C13_Witness ==
    \E c \in Conns :
        /\ inErrorRecovery[c] /\ iterationCount[c] = 1
        /\ ErrorRows(saved[c]) = 1
        /\ \E t \in TurnsOf(c) : turns[t].reqs >= 2 /\ ~AwaitingLLM(t)

(***************************************************************************)
(* C14: whenever a turn ends (its callback is called), inErrorRecovery is  *)
(* false and iterationCount is 0.                                          *)
(***************************************************************************)
C14_TurnEndsClean ==
    [][\A t \in DOMAIN turns :
          turns'[t].outcomes # turns[t].outcomes =>
              /\ ~inErrorRecovery'[turns[t].ws]
              /\ iterationCount'[turns[t].ws] = 0]_vars

(***************************************************************************)
(* C15: the commentary of an assistant tool-call response received during  *)
(* error recovery is empty in the history, in the messages of requests and *)
(* in the row handed to the save callback.                                 *)
(***************************************************************************)
Silent(h, m) == \A i \in DOMAIN h : IssuedCall(h[i], m) => h[i].content = ""

C15_CommentarySuppressed ==
    \A r \in DOMAIN rounds :
        rounds[r].recovering =>
            \A m \in Range(rounds[r].ids) :
                /\ Silent(conversationHistory[ConnOfCall(m)], m)
                /\ \A q \in inflight : Silent(q.messages, m)
                /\ Silent(saved[ConnOfCall(m)], m)

(***************************************************************************)
(* C16: every chat-completion request issued carries the system prompt     *)
(* followed by sanitizeHistory of the conversation history as it is when   *)
(* the request is sent.                                                    *)
(***************************************************************************)
C16_RequestsSanitized ==
    [][\A q \in inflight' \ inflight :
          q.messages = <<SystemMessage>>
                         \o sanitizeHistory(conversationHistory'[turns'[q.turn].ws])]_vars

\* A request in flight whose sanitized messages differ from the raw history.
C16_Witness ==
    \E q \in inflight :
        LET h == conversationHistory[turns[q.turn].ws]
        IN /\ q.messages = <<SystemMessage>> \o sanitizeHistory(h)
           /\ sanitizeHistory(h) # h

(***************************************************************************)
(* The history handed to createAIClient and the client's history right     *)
(* after its creation.                                                     *)
(***************************************************************************)
Loaded(c) == getSessionHistory(saved[c])

JustCreated(c) == c \in aiClients /\ turns = <<>>

(***************************************************************************)
(* C17: in sanitizeHistory(h) every tool message lies in a run of tool     *)
(* messages directly after an assistant message with tool_calls, carries   *)
(* one of that message's tool-call ids, and shares its id with no other    *)
(* tool message of the run.                                                *)
(***************************************************************************)
RunsPaired(h) ==
    \A i \in DOMAIN h :
        h[i].role = "tool" =>
            \E j \in 1..(i - 1) :
                /\ h[j].role = "assistant" /\ h[j].has_tool_calls
                /\ h[i].tool_call_id \in Range(h[j].tool_calls)
                /\ \A k \in (j + 1)..(i - 1) :
                      h[k].role = "tool" /\ h[k].tool_call_id # h[i].tool_call_id

C17_SanitizedRunsPaired ==
    \A c \in Conns :
        /\ RunsPaired(sanitizeHistory(Loaded(c)))
        /\ JustCreated(c) => RunsPaired(conversationHistory[c])

\* A client created from a store with a tool row that had to be dropped and
\* one that was kept.
C17_Witness ==
    \E c \in Conns :
        /\ JustCreated(c)
        /\ ~RunsPaired(Loaded(c))
        /\ \E i \in DOMAIN conversationHistory[c] : conversationHistory[c][i].role = "tool"

(***************************************************************************)
(* C18: in the messages of every request, each assistant message with      *)
(* tool calls is immediately followed by exactly one tool message per      *)
(* tool-call id; here for a store written by turns of which the last may   *)
(* have been interrupted.                                                  *)
(***************************************************************************)
Complete(h) ==
    \A i \in DOMAIN h :
        (h[i].role = "assistant" /\ h[i].tool_calls # <<>>) =>
            LET n == Len(h[i].tool_calls) IN
            /\ i + n <= Len(h)
            /\ \A k \in (i + 1)..(i + n) : h[k].role = "tool"
            /\ {h[k].tool_call_id : k \in (i + 1)..(i + n)} = Range(h[i].tool_calls)
            /\ (i + n + 1 <= Len(h)) => h[i + n + 1].role # "tool"

WrittenByTurns(h) ==
    /\ h # <<>>
    /\ h[1].role = "user"
    /\ \A i \in DOMAIN h : h[i].role \in {"user", "assistant", "tool"}
    /\ Paired(h)

C18_RequestsComplete ==
    \A q \in inflight :
        WrittenByTurns(Loaded(turns[q.turn].ws)) => Complete(q.messages)

(***************************************************************************)
(* C19: sanitizeHistory(sanitizeHistory(h)) = sanitizeHistory(h).          *)
(***************************************************************************)
C19_SanitizeIdempotent ==
    \A c \in Conns :
        /\ sanitizeHistory(sanitizeHistory(Loaded(c))) = sanitizeHistory(Loaded(c))
        /\ JustCreated(c) => sanitizeHistory(conversationHistory[c]) = conversationHistory[c]

\* A client created from a store of which sanitizeHistory dropped something
\* and kept something.
C19_Witness ==
    \E c \in Conns :
        /\ JustCreated(c)
        /\ conversationHistory[c] # Loaded(c)
        /\ Len(conversationHistory[c]) >= 2

(***************************************************************************)
(* C20: sanitizeHistory keeps every user message and every assistant       *)
(* message that requests no tool call (tool_calls absent or an empty       *)
(* list), unchanged and in order.                                          *)
(***************************************************************************)
RequestsNoToolCall(msg) ==
    msg.role = "user" \/ (msg.role = "assistant" /\ msg.tool_calls = <<>>)

C20_PlainMessagesKept ==
    \A c \in Conns :
        JustCreated(c) =>
            SelectSeq(conversationHistory[c], RequestsNoToolCall)
                = SelectSeq(Loaded(c), RequestsNoToolCall)

(***************************************************************************)
(* The turn's view of a step: outcomes delivered to the caller, requests   *)
(* issued, and the tool rows written for connection c.                     *)
(***************************************************************************)
Delivered(t, outcome) == turns'[t].outcomes = Append(turns[t].outcomes, outcome)

NoRequestIssued(t) ==
    /\ turns'[t].reqs = turns[t].reqs
    /\ \A q \in inflight' \ inflight : q.turn # t

\* The rounds whose closure belongs to connection c.
RoundsOf(c) == {r \in DOMAIN rounds : turns[rounds[r].turn].ws = c}

\* A tool row written in this step repeats the id of a tool message that
\* the history already holds for the latest assistant message with tool calls.
DuplicateRow(c, row) ==
    /\ row.role = "tool"
    /\ row.tool_call_id # NoId
    /\ IsDuplicateFrom(conversationHistory[c], Len(conversationHistory[c]), row.tool_call_id)

(***************************************************************************)
(* C21: a tool result whose tool_call_id duplicates a tool message already *)
(* appended for the same assistant message aborts the turn with a local    *)
(* integrity error: the history is not changed, the duplicate is not       *)
(* counted as a completed tool call and no request is issued.              *)
(***************************************************************************)
C21_DuplicateAborts ==
    [][\A c \in Conns :
          (Len(NewRows(c)) = 1 /\ DuplicateRow(c, NewRows(c)[1])) =>
              LET t == TurnOfCall(NewRows(c)[1].tool_call_id)
              IN /\ conversationHistory'[c] = conversationHistory[c]
                 /\ Delivered(t, "error")
                 /\ NoRequestIssued(t)
                 /\ \A r \in RoundsOf(c) : rounds'[r].completed = rounds[r].completed]_vars

(***************************************************************************)
(* Tool results without an id.  The closure <<r, k>> of a call of kind     *)
(* "noid" produces tool messages whose tool_call_id is missing.            *)
(***************************************************************************)
KindOfCall(m) == rounds[m[1]].calls[m[2]]

NoIdResult(m) ==
    /\ m \in DOMAIN audit.resolved
    /\ KindOfCall(m) = "noid"
    /\ NewlyResolved(m, "result")

\* A result without an id has reached the tool callback of turn t.
NoIdResolved(t) ==
    \E m \in CallsOfTurn(t) \cap DOMAIN audit.resolved :
        KindOfCall(m) = "noid" /\ "result" \in Range(audit.resolved[m])

(***************************************************************************)
(* C22: a tool result without tool_call_id is neither appended to the      *)
(* history nor persisted nor sent to the LLM, the turn's callback receives *)
(* an error, and no chat-completion request is issued for that turn from   *)
(* then on.                                                                *)
(***************************************************************************)
C22_NoIdResultEndsTurn ==
    [][\A t \in DOMAIN turns :
          LET c == turns[t].ws
          IN /\ \A m \in CallsOfTurn(t) :
                    NoIdResult(m) =>
                        /\ conversationHistory'[c] = conversationHistory[c]
                        /\ saved'[c] = saved[c]
                        /\ Delivered(t, "error")
                        /\ NoRequestIssued(t)
             /\ NoIdResolved(t) => NoRequestIssued(t)]_vars

(***************************************************************************)
(* The response handled in this step: the round it opened.                 *)
(***************************************************************************)
RoundOpened(r) == r \in DOMAIN rounds' /\ r \notin DOMAIN rounds

CallsOfKind(r, kind) == {k \in DOMAIN rounds'[r].calls : rounds'[r].calls[k] = kind}

(***************************************************************************)
(* C23: a tool call whose arguments are not valid JSON is answered with an *)
(* error tool message for that call and the turn goes on: no error is      *)
(* delivered to the turn's callback by the handling of that response.      *)
(***************************************************************************)
C23_MalformedArgumentsAnswered ==
    [][\A r \in DOMAIN rounds' :
          (RoundOpened(r) /\ CallsOfKind(r, "malformed") # {}) =>
              LET t == rounds'[r].turn
                  c == turns[t].ws
              IN /\ \A k \in CallsOfKind(r, "malformed") :
                        \E i \in DOMAIN NewRows(c) :
                            /\ AnswersCall(NewRows(c)[i], <<r, k>>)
                            /\ StatusOf(NewRows(c)[i].content) = "error"
                 /\ turns'[t].outcomes = turns[t].outcomes]_vars

(***************************************************************************)
(* C24: a tool call that names another function than the configured tool   *)
(* is answered, by the handling of the response itself, with a tool        *)
(* message carrying the call's id and an error content, and no execution   *)
(* is ever registered with the approval gate or started for it.            *)
(***************************************************************************)
C24_UnknownToolAnswered ==
    [][\A r \in DOMAIN rounds' :
          RoundOpened(r) =>
              LET c == turns[rounds'[r].turn].ws
              IN \A k \in CallsOfKind(r, "unknown") :
                     /\ \E i \in DOMAIN NewRows(c) :
                            /\ AnswersCall(NewRows(c)[i], <<r, k>>)
                            /\ NewRows(c)[i].content = "unknown_tool"
                     /\ <<r, k>> \notin DOMAIN pendingCodeExecutions'
                     /\ EvalsInFlight(<<r, k>>)' = 0]_vars

(***************************************************************************)
(* Validations.  An invocation e of evalClojure leaves the validation in   *)
(* this step when one copy of e at stage "validate" is gone; it was        *)
(* rejected when the validator's only result says valid = false.           *)
(***************************************************************************)
Validating(e) == e.stage = "validate" /\ BagIn(e, evals)

ValidationOver(e) == Validating(e) /\ CopiesIn(e, evals') = CopiesIn(e, evals) - 1

ExecutionsStarted(e) == CopiesIn(executeCode(e), evals') - CopiesIn(executeCode(e), evals)

ReportsInvalid(e) ==
    \E i \in DOMAIN validateCode(e.lint) : ~validateCode(e.lint)[i].valid

(***************************************************************************)
(* C25: when the validator reports valid = false for approved code, nREPL  *)
(* is not invoked for it, the tool call is answered with a tool message of *)
(* status error, and inErrorRecovery is true afterwards.                   *)
(***************************************************************************)
C25_InvalidCodeAnswered ==
    [][\A e \in BagToSet(evals) :
          (ValidationOver(e) /\ ReportsInvalid(e)) =>
              LET c == ConnOfCall(e.callback)
              IN /\ ExecutionsStarted(e) = 0
                 /\ \E i \in DOMAIN NewRows(c) :
                        /\ AnswersCall(NewRows(c)[i], e.callback)
                        /\ StatusOf(NewRows(c)[i].content) = "error"
                 /\ inErrorRecovery'[c]]_vars

(***************************************************************************)
(* C26: the tool message of a validation failure carries the validator's   *)
(* findings and the validation guidance; the tool message of a runtime     *)
(* error carries no findings and the execution guidance.                   *)
(***************************************************************************)
C26_ValidationFailureDistinct ==
    [][\A e \in BagToSet(evals) :
          LET c == ConnOfCall(e.callback)
              gone == BagIn(e, evals) /\ CopiesIn(e, evals') = CopiesIn(e, evals) - 1
          IN \A i \in DOMAIN NewRows(c) :
                 (gone /\ AnswersCall(NewRows(c)[i], e.callback)
                       /\ StatusOf(NewRows(c)[i].content) = "error") =>
                     IF e.stage = "validate"
                     THEN NewRows(c)[i].content = "error_validation"
                     ELSE NewRows(c)[i].content = "error"]_vars

(***************************************************************************)
(* C27: when clj-kondo cannot be run or its output cannot be parsed, the   *)
(* validator's callback is called exactly once, with a skipped result, and *)
(* the code is handed to nREPL exactly once; the validation by itself      *)
(* answers nothing: no tool message, no callback of the execution, no      *)
(* outcome of the turn.                                                    *)
(***************************************************************************)
ValidatorDown(e) == e.lint \in {"unavailable", "unparsable"}

C27_UnavailableValidatorSkips ==
    [][\A e \in BagToSet(evals) :
          (ValidationOver(e) /\ ValidatorDown(e)) =>
              /\ validateCode(e.lint) = <<[valid |-> TRUE, skipped |-> TRUE]>>
              /\ ExecutionsStarted(e) = 1
              /\ saved' = saved
              /\ conversationHistory' = conversationHistory
              /\ turns' = turns
              /\ audit'.resolved = audit.resolved
              /\ pendingCodeExecutions' = pendingCodeExecutions]_vars

\* The code of an execution is running in nREPL after a validation that
\* could not be run, and after one whose output could not be parsed.
C27_Witness ==
    /\ \E e \in BagToSet(evals) : e.stage = "eval" /\ e.lint = "unavailable"
    /\ \E e \in BagToSet(evals) : e.stage = "eval" /\ e.lint = "unparsable"

(***************************************************************************)
(* C28: validateCode reports valid = false exactly when the findings hold  *)
(* an entry of level error; findings of level warning only are valid and   *)
(* the code is executed.                                                   *)
(***************************************************************************)
C28_WarningsDoNotBlock ==
    [][\A e \in BagToSet(evals) :
          ValidationOver(e) =>
              /\ ReportsInvalid(e) <=> e.lint = "errors"
              /\ e.lint = "warnings" => ExecutionsStarted(e) = 1]_vars

(***************************************************************************)
(* C29: when a chat-completion request fails (its response is consumed     *)
(* and no assistant message comes of it), the turn's callback receives the *)
(* error, no request is issued in its place and the history is left as it  *)
(* was.                                                                    *)
(***************************************************************************)
RequestFails(q) ==
    /\ q \in inflight
    /\ q \notin inflight'
    /\ saved'[turns[q.turn].ws] = saved[turns[q.turn].ws]

C29_FailedRequestEndsTurn ==
    [][\A q \in inflight :
          RequestFails(q) =>
              /\ Delivered(q.turn, "error")
              /\ NoRequestIssued(q.turn)
              /\ inflight' = inflight \ {q}
              /\ conversationHistory' = conversationHistory]_vars

\* The follow-up request of a turn has failed: the tool result is in the
\* history, the error is the turn's only outcome and nothing is in flight.
C29_Witness ==
    \E t \in DOMAIN turns :
        /\ turns[t].outcomes = <<"error">>
        /\ turns[t].reqs = 2
        /\ ~AwaitingLLM(t)
        /\ \A r \in DOMAIN rounds : rounds[r].turn = t => ~rounds[r].hasError
        /\ Last(conversationHistory[turns[t].ws]).role = "tool"

(***************************************************************************)
(* C30: in a turn without errors, cancellations or concurrent turns, when  *)
(* the final answer arrives the history holds exactly the user message,    *)
(* then for every round the assistant message with its tool calls followed *)
(* by one tool message per call, then the final assistant message.         *)
(***************************************************************************)
RECURSIVE CleanShape(_, _, _)
CleanShape(h, i, issued) ==
    IF issued = <<>>
    THEN /\ i = Len(h)
         /\ h[i].role = "assistant"
         /\ h[i].tool_calls = <<>>
         /\ h[i].content = "answer"
    ELSE LET ids == Head(issued)
             n == Len(ids)
         IN /\ i + n < Len(h)
            /\ h[i].role = "assistant"
            /\ h[i].tool_calls = ids
            /\ \A j \in (i + 1)..(i + n) : h[j].role = "tool"
            /\ \A m \in Range(ids) :
                   Cardinality({j \in (i + 1)..(i + n) : h[j].tool_call_id = m}) = 1
            /\ CleanShape(h, i + n + 1, Tail(issued))

\* The tool calls of the rounds of turn t, in the order of the responses.
RECURSIVE IssuedFrom(_, _)
IssuedFrom(t, r) ==
    IF r > Len(rounds) THEN <<>>
    ELSE (IF rounds[r].turn = t THEN <<rounds[r].ids>> ELSE <<>>) \o IssuedFrom(t, r + 1)

CleanTurn(t) ==
    LET c == turns[t].ws
    IN /\ TurnsOf(c) = {t}
       /\ turns[t].outcomes = <<>>
       /\ \A i \in DOMAIN saved[c] :
              saved[c][i].role = "tool" => StatusOf(saved[c][i].content) = "success"

C30_CleanTurnHistory ==
    [][\A t \in DOMAIN turns :
          (CleanTurn(t) /\ Delivered(t, "final")) =>
              LET h == conversationHistory'[turns[t].ws]
              IN /\ Len(h) >= 2
                 /\ h[1] = UserMessage("text")
                 /\ CleanShape(h, 2, IssuedFrom(t, 1))]_vars

(***************************************************************************)
(* C34: the callback given to sendMessage is called at most once per turn  *)
(* (and so exactly once when the turn ends), for any number of tool calls  *)
(* and any mix of outcomes, provided that the callback of every execution  *)
(* of the turn has been called at most once.                               *)
(***************************************************************************)
ExecutorsFireOnce(t) ==
    \A m \in CallsOfTurn(t) \cap DOMAIN audit.resolved : Len(audit.resolved[m]) <= 1

C34_CallbackOnce ==
    \A t \in DOMAIN turns :
        ExecutorsFireOnce(t) => Len(turns[t].outcomes) <= 1

(***************************************************************************)
(* C35: once a turn has ended with a cancellation or an error, none of its *)
(* executions is pending approval any more.                                *)
(***************************************************************************)
EndedBadly(t) == Outcomes(t) \cap {"cancelled", "error", "limit"} # {}

C35_EndedTurnNotApprovable ==
    \A t \in DOMAIN turns :
        EndedBadly(t) =>
            \A m \in CallsOfTurn(t) : m \notin DOMAIN pendingCodeExecutions

(***************************************************************************)
(* C36: after a connection has closed, no chat-completion request is       *)
(* issued for its turns and no pending execution is registered for it.     *)
(***************************************************************************)
C36_ClosedConnectionQuiet ==
    [][\A c \in Conns :
          conn[c] = "closed" =>
              /\ \A t \in TurnsOf(c) : NoRequestIssued(t)
              /\ OwnedBy(pendingCodeExecutions', c) \subseteq OwnedBy(pendingCodeExecutions, c)]_vars

(***************************************************************************)
(* C37: between handlers the recovery fields are coupled: inErrorRecovery  *)
(* is false and iterationCount is 0, or inErrorRecovery is true and        *)
(* iterationCount is between 1 and maxIterations.                          *)
(***************************************************************************)
C37_RecoveryCoupled ==
    \A c \in Conns :
        \/ ~inErrorRecovery[c] /\ iterationCount[c] = 0
        \/ inErrorRecovery[c] /\ iterationCount[c] \in 1..maxIterations

\* The last iteration the limit allows is under way.
C37_Witness ==
    \E c \in Conns :
        /\ inErrorRecovery[c]
        /\ iterationCount[c] = maxIterations
        /\ \E t \in TurnsOf(c) : AwaitingLLM(t)

(***************************************************************************)
(* C38: reloading the rows handed to the save callback yields the          *)
(* in-memory conversationHistory of the session's client.                  *)
(***************************************************************************)
C38_StoreEqualsHistory ==
    \A c \in aiClients : getSessionHistory(saved[c]) = conversationHistory[c]

(***************************************************************************)
(* C39: a tool result whose status is not success and not error (an        *)
(* execution_failed result, an unknown-tool answer) leaves inErrorRecovery *)
(* and iterationCount unchanged and sends no success notification.         *)
(***************************************************************************)
SuccessNotice == "Code executed successfully!"

C39_OnlySuccessResets ==
    [][\A c \in Conns :
          (Len(NewRows(c)) = 1 /\ NewRows(c)[1].role = "tool"
              /\ StatusOf(NewRows(c)[1].content) \notin {"success", "error"}) =>
                  /\ inErrorRecovery'[c] = inErrorRecovery[c]
                  /\ iterationCount'[c] = iterationCount[c]
                  /\ SuccessNotice \notin Range(statusSent')]_vars

(***************************************************************************)
(* nrepl-server: start(options, thenDo) for a server that is spawned.      *)
(* startSentinel arms the fallback timer (2000 ms) and the start timeout   *)
(* (options.startTimeout), and listens to the child's stdout and stderr;   *)
(* each buffer is searched for a start message whenever it grows.          *)
(***************************************************************************)
MaxChunks == 3

FallbackDelay == 2000

StartTimeouts == {1000, 2000, 10000}

\* What the child may write in one 'data' event.  A start message may
\* arrive whole or split over two events.
Chunks == {"log", "Started nREPL", " server at localhost:1668", "nREPL server ready"}

\* expectedArray.some(expected => string.indexOf(expected) !== -1) on the
\* whole buffer of one stream.
Found(buf) ==
    \E i \in DOMAIN buf :
        \/ buf[i] = "nREPL server ready"
        \/ /\ buf[i] = "Started nREPL"
           /\ i < Len(buf)
           /\ buf[i + 1] = " server at localhost:1668"

\* grabHostnameAndPortFromOutput, then the defaults of serverStartDance.
\* "Started nREPL server at localhost:1668" is matched by pattern 2, whose
\* groups are (host, port): match[2] becomes the hostname and
\* parseInt(match[1]) is NaN, which the default 1667 replaces.  Without a
\* full "... at host:port" the number after the colon is the port.
serverStartDance(st, buf) ==
    LET full == \E i \in DOMAIN buf : /\ buf[i] = "Started nREPL"
                                      /\ i < Len(buf)
                                      /\ buf[i + 1] = " server at localhost:1668"
        colon == \E i \in DOMAIN buf : buf[i] = " server at localhost:1668"
    IN [st EXCEPT !.hostname = IF full THEN "1668" ELSE "localhost",
                  !.port = IF full THEN 1667 ELSE IF colon THEN 1668 ELSE 1667,
                  !.started = TRUE]

\* startServer spawns the child, then startSentinel(options, serverState, thenDo).
StartServer(startTimeout) ==
    /\ serverState = NoServer
    /\ serverState' = [proc |-> "running", stdout |-> <<>>, stderr |-> <<>>,
                       hostname |-> "undefined", port |-> 0,
                       started |-> FALSE, exited |-> FALSE]
    /\ sentinel' = [thenDo |-> <<>>, thenDoCalled |-> FALSE,
                    startTimeout |-> startTimeout,
                    fallbackTimer |-> "armed", timeoutProc |-> "armed",
                    listening |-> TRUE]
    /\ UNCHANGED <<chatVars, discoveryVars, extractVars>>

\* ps.spawn throws: thenDo(e, null) and no sentinel.
SpawnFails ==
    /\ serverState = NoServer
    /\ sentinel = NoSentinel
    /\ sentinel' = [thenDo |-> <<"error">>]
    /\ UNCHANGED <<serverState, chatVars, discoveryVars, extractVars>>

Spawned == serverState # NoServer

\* Timers fire in the order of their delays; the fallback timer was set first.
FallbackDue ==
    /\ Spawned
    /\ sentinel.fallbackTimer = "armed"
    /\ sentinel.timeoutProc = "armed" => FallbackDelay <= sentinel.startTimeout

TimeoutDue ==
    /\ Spawned
    /\ sentinel.timeoutProc = "armed"
    /\ sentinel.fallbackTimer = "armed" => sentinel.startTimeout < FallbackDelay

\* The fallback timer's function.
FallbackFires ==
    /\ FallbackDue
    /\ IF ~serverState.started /\ ~sentinel.thenDoCalled
       THEN /\ serverState' = [serverState EXCEPT !.hostname = "localhost",
                                                  !.port = 1668, !.started = TRUE]
            /\ sentinel' = [sentinel EXCEPT !.fallbackTimer = "fired",
                                            !.thenDoCalled = TRUE,
                                            !.thenDo = Append(@, "started")]
       ELSE /\ sentinel' = [sentinel EXCEPT !.fallbackTimer = "fired"]
            /\ UNCHANGED serverState
    /\ UNCHANGED <<chatVars, discoveryVars, extractVars>>

\* timeout()
TimeoutFires ==
    /\ TimeoutDue
    /\ sentinel' = IF sentinel.thenDoCalled
                   THEN [sentinel EXCEPT !.timeoutProc = "fired"]
                   ELSE [sentinel EXCEPT !.timeoutProc = "fired",
                                         !.thenDoCalled = TRUE,
                                         !.thenDo = Append(@, "timeout")]
    /\ UNCHANGED <<serverState, chatVars, discoveryVars, extractVars>>

\* A 'data' event of stdout or stderr while the listeners are attached:
\* gatherOut appends to the stream's buffer and check() searches it.
Data(stream, chunk) ==
    /\ Spawned
    /\ ~serverState.exited
    /\ sentinel.listening
    /\ Len(serverState.stdout) + Len(serverState.stderr) < MaxChunks
    /\ LET buf == Append(serverState[stream], chunk)
           st  == [serverState EXCEPT ![stream] = buf]
       IN IF Found(buf)
          THEN /\ serverState' = serverStartDance(st, buf)
               /\ sentinel' = [sentinel EXCEPT
                      !.listening = FALSE,
                      !.timeoutProc = IF @ = "armed" THEN "cleared" ELSE @,
                      !.fallbackTimer = IF @ = "armed" THEN "cleared" ELSE @,
                      !.thenDoCalled = TRUE,
                      !.thenDo = Append(@, "started")]
          ELSE /\ serverState' = st
               /\ UNCHANGED sentinel
    /\ UNCHANGED <<chatVars, discoveryVars, extractVars>>

\* proc.on('close'): serverState.exited = true
ProcClose ==
    /\ Spawned
    /\ ~serverState.exited
    /\ serverState' = [serverState EXCEPT !.exited = TRUE]
    /\ UNCHANGED <<sentinel, chatVars, discoveryVars, extractVars>>

NextServer ==
    \/ \E st \in StartTimeouts : StartServer(st)
    \/ SpawnFails
    \/ FallbackFires
    \/ TimeoutFires
    \/ \E stream \in {"stdout", "stderr"}, chunk \in Chunks : Data(stream, chunk)
    \/ ProcClose

SpecServer == Init /\ [][NextServer]_vars

\* No event of the start is outstanding: both timers have fired or were cleared.
StartSettled ==
    /\ Spawned
    /\ sentinel.fallbackTimer # "armed"
    /\ sentinel.timeoutProc # "armed"

\* C40: for a spawned server thenDo is never invoked a second time, and it
\* has been invoked once both timers have fired or were cleared, whatever
\* the order of the fallback timer, the start message and the start timeout.
C40_ThenDoExactlyOnce ==
    Spawned => /\ Len(sentinel.thenDo) <= 1
               /\ StartSettled => Len(sentinel.thenDo) = 1

(***************************************************************************)
(* ns-discovery: discoverNamespaces and clearCache.  The cache is a module *)
(* variable; a call that finds no list starts an nREPL eval and fills the  *)
(* cache from the eval's callback.  The runtime's namespaces may differ    *)
(* from one eval to the next.                                              *)
(***************************************************************************)
MaxDiscoveries == 3

NamespaceLists == {<<>>, <<"user">>, <<"app", "user">>}

Cached(list) == [cached |-> TRUE, allNamespaces |-> list]

Returned(list) == [kind |-> "list", value |-> list]

Failed == [kind |-> "error", value |-> <<>>]

NotReturned == [kind |-> "pending", value |-> <<>>]

\* What the eval of '(sort (map str (keys (all-ns))))' may come to.
EvalOutcomes ==
    {[kind |-> k, value |-> <<>>] : k \in {"err", "no value", "throws"}}
        \cup {Returned(list) : list \in NamespaceLists}

\* discoverNamespaces up to its return: the cached list (an empty array is
\* truthy), or nreplConnection.eval.
DiscoverNamespaces ==
    /\ Len(discoverCalls) < MaxDiscoveries
    /\ discoverCalls' = Append(discoverCalls,
           IF namespaceCache.cached
           THEN [evaluated |-> FALSE, result |-> Returned(namespaceCache.allNamespaces)]
           ELSE [evaluated |-> TRUE, result |-> NotReturned])
    /\ discoveryAudit' = [discoveryAudit EXCEPT !.cleared = FALSE]
    /\ UNCHANGED <<namespaceCache, chatVars, serverVars, extractVars>>

\* The eval's callback of call i: err, no value in the messages, or
\* serializeResult throwing -> callback(error); otherwise the list is
\* cached and handed to the callback.
DiscoverEvalDone(i, outcome) ==
    /\ discoverCalls[i].result = NotReturned
    /\ IF outcome.kind = "list"
       THEN /\ namespaceCache' = Cached(outcome.value)
            /\ discoverCalls' = [discoverCalls EXCEPT ![i].result = outcome]
            /\ discoveryAudit' =
                   IF discoveryAudit.succeeded = NoCache
                   THEN [discoveryAudit EXCEPT !.succeeded = Cached(outcome.value)]
                   ELSE discoveryAudit
       ELSE /\ discoverCalls' = [discoverCalls EXCEPT ![i].result = Failed]
            /\ UNCHANGED <<namespaceCache, discoveryAudit>>
    /\ UNCHANGED <<chatVars, serverVars, extractVars>>

\* clearCache(): namespaceCache = {}
ClearCache ==
    /\ namespaceCache' = NoCache
    /\ discoveryAudit' = [succeeded |-> NoCache, cleared |-> TRUE]
    /\ UNCHANGED <<discoverCalls, chatVars, serverVars, extractVars>>

NextDiscovery ==
    \/ DiscoverNamespaces
    \/ \E i \in DOMAIN discoverCalls, outcome \in EvalOutcomes :
           DiscoverEvalDone(i, outcome)
    \/ ClearCache

SpecDiscovery == Init /\ [][NextDiscovery]_vars

\* A discoverNamespaces call is made in this step; the call's record.
CallMade == Len(discoverCalls') = Len(discoverCalls) + 1

NewCall == discoverCalls'[Len(discoverCalls')]

\* C31: a call made after a call has succeeded, and before clearCache,
\* returns the list of that success without an eval; the first call made
\* after clearCache evaluates.
C31_CacheUntilCleared ==
    [][CallMade =>
          /\ discoveryAudit.succeeded # NoCache =>
                 /\ ~NewCall.evaluated
                 /\ NewCall.result = Returned(discoveryAudit.succeeded.allNamespaces)
          /\ discoveryAudit.cleared => NewCall.evaluated]_vars

(***************************************************************************)
(* Answer extractor: extractHTML(content).  A string is a sequence of      *)
(* symbols.  "BAR" and "LOW" are the two sentinel characters of the        *)
(* tool-call markers; "html" and "!DOCTYPE" are the words of that          *)
(* spelling, which only occur behind "<"; every other symbol is one        *)
(* character.  The value of a JavaScript expression is a record: null, a   *)
(* string, or the TypeError the expression throws.                         *)
(***************************************************************************)
MaxTokens == 4

Words == {"p", "b", "x", "html"}

Blank == {" ", "\n"}

\* The pieces the inputs are built from: opening and closing tags of a
\* block-level and of an inline element, text, a line break, a space, a
\* tool-call marker, a stray sentinel, an unfinished <html, an unfinished
\* <!DOCTYPE, and lone angle brackets.
Tokens ==
    {<<"<", "p", ">">>, <<"<", "/", "p", ">">>,
     <<"<", "b", ">">>, <<"<", "/", "b", ">">>,
     <<"x">>, <<"\n">>, <<" ">>,
     <<"<", "BAR", "x", "BAR", ">">>, <<"BAR">>,
     <<"<", "html">>, <<"<", "!DOCTYPE">>, <<">">>, <<"<">>}

RECURSIVE Texts(_)
Texts(n) ==
    IF n = 0 THEN {<<>>}
    ELSE LET shorter == Texts(n - 1)
         IN shorter \cup {s \o t : s \in shorter, t \in Tokens}

JsNull == [kind |-> "null", value |-> <<>>]

JsString(s) == [kind |-> "string", value |-> s]

TypeError == [kind |-> "TypeError", value |-> <<>>]

\* Arguments: null, undefined, a number, an object, and the strings.
Contents ==
    {[kind |-> k, value |-> <<>>] : k \in {"null", "undefined", "number", "object"}}
        \cup {JsString(s) : s \in Texts(MaxTokens)}

MatchAt(s, i, pat) ==
    /\ i >= 1
    /\ i + Len(pat) - 1 <= Len(s)
    /\ SubSeq(s, i, i + Len(pat) - 1) = pat

From(s, i) == SubSeq(s, i, Len(s))

Least(S) == CHOOSE i \in S : \A j \in S : i <= j

\* String.prototype.trim
RECURSIVE Trim(_)
Trim(s) ==
    IF s = <<>> THEN s
    ELSE IF Head(s) \in Blank THEN Trim(Tail(s))
    ELSE IF s[Len(s)] \in Blank THEN Trim(SubSeq(s, 1, Len(s) - 1))
    ELSE s

\* /<[BAR|][^>]*?[BAR|]>/ matched at i: the position of its final ">", or 0.
MarkerEnd(s, i) ==
    LET ends == {j \in (i + 3)..Len(s) :
                    /\ s[j] = ">"
                    /\ s[j - 1] = "BAR"
                    /\ \A k \in (i + 2)..(j - 2) : s[k] # ">"}
    IN IF i + 1 <= Len(s) /\ s[i] = "<" /\ s[i + 1] = "BAR" /\ ends # {}
       THEN Least(ends) ELSE 0

\* trimmed.replace(/<[BAR|][^>]*?[BAR|]>/g, '')
RECURSIVE StripMarkers(_, _)
StripMarkers(s, i) ==
    IF i > Len(s) THEN <<>>
    ELSE IF MarkerEnd(s, i) # 0 THEN StripMarkers(s, MarkerEnd(s, i) + 1)
    ELSE <<s[i]>> \o StripMarkers(s, i + 1)

\* trimmed.replace(/[BAR LOW]/g, '')
StripSentinels(s) == SelectSeq(s, LAMBDA ch : ch \notin {"BAR", "LOW"})

\* content.trim() and the two replacements.
Stripped(s) == StripSentinels(StripMarkers(Trim(s), 1))

\* Positions at which a pattern <word... begins.
Occurrences(s, pat) == {i \in 1..Len(s) : MatchAt(s, i, pat)}

\* A ">" at or behind position i.
ClosesBehind(s, i) == \E j \in i..Len(s) : s[j] = ">"

\* ^<(\w+): the run of word characters behind the "<".
RECURSIVE WordRun(_, _)
WordRun(s, i) ==
    IF i <= Len(s) /\ s[i] \in Words THEN <<s[i]>> \o WordRun(s, i + 1) ELSE <<>>

\* '</' + tagName + '>(?!.*</' + tagName + '>)': the closing tags behind
\* which no other closing tag of the name stands on the same line (the dot
\* matches no line break).
ClosingMatches(h, pat) ==
    {k \in Occurrences(h, pat) :
        ~\E m \in Occurrences(h, pat) :
            /\ m >= k + Len(pat)
            /\ \A n \in (k + Len(pat))..(m - 1) : h[n] # "\n"}

\* Step 3: the structure match and the cut behind the closing tag.
StructureStarts(s) ==
    {i \in Occurrences(s, <<"<", "p">>) : ClosesBehind(s, i + 2)}

ExtractStructure(s) ==
    LET htmlContent == Trim(From(s, Least(StructureStarts(s))))
        tagName == WordRun(htmlContent, 2)
        closing == <<"<", "/">> \o tagName \o <<">">>
        found == ClosingMatches(htmlContent, closing)
    IN IF found # {}
       THEN Trim(SubSeq(htmlContent, 1, Least(found) + Len(closing) - 1))
       ELSE htmlContent

\* Step 4: /<[a-z][a-z0-9]*[\s\S]*?>/ and /.*(<\/[a-z][a-z0-9]*>)/.
AnyTagStarts(s) ==
    {i \in 1..(Len(s) - 1) : s[i] = "<" /\ s[i + 1] \in Words /\ ClosesBehind(s, i + 2)}

\* A closing tag </word> begins at i: its length, or 0.
ClosingTagLen(s, i) ==
    IF /\ MatchAt(s, i, <<"<", "/">>)
       /\ WordRun(s, i + 2) # <<>>
       /\ MatchAt(s, i + 2 + Len(WordRun(s, i + 2)), <<">">>)
    THEN 3 + Len(WordRun(s, i + 2)) ELSE 0

\* The first position of the line of position i.
LineStart(s, i) ==
    Least({j \in 1..i : \A n \in j..(i - 1) : s[n] # "\n"})

\* The last position of the line of position i.
LineEnd(s, i) ==
    Least({j \in i..Len(s) : j = Len(s) \/ s[j + 1] = "\n"})

\* The match begins where the line of the first closing tag begins, and
\* the group is the last closing tag of that line; the result ends at
\* lastClosingTag.index + lastClosingTag[1].length.
ExtractAnyTag(s) ==
    LET potentialHtml == From(s, Least(AnyTagStarts(s)))
        closings == {i \in 1..Len(potentialHtml) : ClosingTagLen(potentialHtml, i) # 0}
    IN IF closings = {} THEN Trim(potentialHtml)
       ELSE LET first == Least(closings)
                index == LineStart(potentialHtml, first) - 1
                inLine == {i \in closings : i <= LineEnd(potentialHtml, first)}
                group == CHOOSE i \in inLine : \A j \in inLine : j <= i
                upto == index + ClosingTagLen(potentialHtml, group)
            IN Trim(SubSeq(potentialHtml, 1, IF upto > Len(potentialHtml)
                                               THEN Len(potentialHtml) ELSE upto))

\* The function behind its guard, on the text of a string.
ExtractFromString(text) ==
    LET trimmed == Stripped(text)
        doctype == Occurrences(trimmed, <<"<", "!DOCTYPE">>)
        html == Occurrences(trimmed, <<"<", "html">>)
    IN IF MatchAt(trimmed, 1, <<"<", "!DOCTYPE">>) \/ MatchAt(trimmed, 1, <<"<", "html">>)
       THEN JsString(trimmed)
       ELSE IF doctype # {} THEN JsString(Trim(From(trimmed, Least(doctype))))
       ELSE IF html # {} THEN JsString(Trim(From(trimmed, Least(html))))
       ELSE IF StructureStarts(trimmed) # {} THEN JsString(ExtractStructure(trimmed))
       ELSE IF AnyTagStarts(trimmed) # {} THEN JsString(ExtractAnyTag(trimmed))
       ELSE JsNull

\* !content || typeof content !== 'string'
NotText(c) == c.kind # "string" \/ c.value = <<>>

\* content.trim() of a value that is no string throws a TypeError.
extractHTML(c) ==
    IF NotText(c) THEN JsNull
    ELSE IF c.kind # "string" THEN TypeError
    ELSE ExtractFromString(c.value)

ChatIdle ==
    /\ conn = [c \in Conns |-> "none"]
    /\ aiClients = {}
    /\ conversationHistory = [c \in Conns |-> <<>>]
    /\ inErrorRecovery = [c \in Conns |-> FALSE]
    /\ iterationCount = [c \in Conns |-> 0]
    /\ turns = <<>>
    /\ rounds = <<>>
    /\ inflight = {}
    /\ pendingCodeExecutions = NoPending
    /\ evals = EmptyBag
    /\ saved = [c \in Conns |-> <<>>]
    /\ statusSent = <<>>
    /\ audit = [started |-> {}, refused |-> {}, foreign |-> {},
                resolved |-> [m \in {} |-> <<>>]]

InitExtract ==
    /\ ChatIdle
    /\ serverState = NoServer
    /\ sentinel = NoSentinel
    /\ namespaceCache = NoCache
    /\ discoverCalls = <<>>
    /\ discoveryAudit = [succeeded |-> NoCache, cleared |-> FALSE]
    /\ htmlInput \in Contents
    /\ extracted = NoContent

ExtractHTML ==
    /\ extracted = NoContent
    /\ extracted' = extractHTML(htmlInput)
    /\ UNCHANGED <<htmlInput, chatVars, serverVars, discoveryVars>>

NextExtract == ExtractHTML

SpecExtract == InitExtract /\ [][NextExtract]_vars

(***************************************************************************)
(* Vocabulary of the extractor's properties.                               *)
(***************************************************************************)
\* The tags of a text: "<", a name or "/" and a name, up to a ">".
TagStarts(s) ==
    {i \in 1..Len(s) :
        /\ s[i] = "<"
        /\ \/ WordRun(s, i + 1) # <<>>
           \/ MatchAt(s, i + 1, <<"/">>) /\ WordRun(s, i + 2) # <<>>
        /\ ClosesBehind(s, i + 1)}

\* The text holds neither a DOCTYPE declaration nor an <html tag, and its
\* first tag is the opening tag of the block-level element p.
FirstTagIsBlock(s) ==
    /\ Occurrences(s, <<"<", "!DOCTYPE">>) = {}
    /\ Occurrences(s, <<"<", "html">>) = {}
    /\ TagStarts(s) # {}
    /\ WordRun(s, Least(TagStarts(s)) + 1) = <<"p">>

LastClosing(s) ==
    LET all == Occurrences(s, <<"<", "/", "p", ">">>)
    IN CHOOSE i \in all : \A j \in all : j <= i

\* C32: when the first tag of the text is the opening tag of a block-level
\* element and a closing tag of the element follows, extractHTML returns
\* the text from the opening tag through the last closing tag of the
\* element, on whichever line that closing tag stands.
C32_ThroughLastClosingTag ==
    (extracted # NoContent /\ htmlInput.kind = "string") =>
        LET text == Stripped(htmlInput.value)
        IN (/\ FirstTagIsBlock(text)
            /\ \E i \in Occurrences(text, <<"<", "/", "p", ">">>) : i > Least(TagStarts(text)))
           => extracted = JsString(SubSeq(text, Least(TagStarts(text)), LastClosing(text) + 3))

\* The markup of a text: its tags, and a DOCTYPE declaration that is closed.
Markup(s) ==
    TagStarts(s) \cup {i \in Occurrences(s, <<"<", "!DOCTYPE">>) : ClosesBehind(s, i + 2)}

\* C33: extractHTML throws for no argument, and it returns null for an
\* argument that is no string and for a string that holds no HTML tag once
\* the markers are stripped.
C33_TotalNullWithoutTag ==
    extracted # NoContent =>
        /\ extracted # TypeError
        /\ (htmlInput.kind # "string" \/ Markup(Stripped(htmlInput.value)) = {})
               => extracted = JsNull

====
